---- MODULE Spec2Model ----
(***************************************************************************)
(* Real-time WebSocket notifications of perkup-backend: the $connect       *)
(* handler (src/src/handlers/websocket/connectHandler.js) and the          *)
(* notification service (src/src/services/websocketService.js), over the   *)
(* DynamoDB connections table they share.                                  *)
(*                                                                         *)
(* Every await of the code is a step boundary: a handler or a broadcast    *)
(* runs up to its next await in one action, and the awaited call (a table  *)
(* put, scan or delete, a postToConnection) resolves in a later action     *)
(* with an outcome chosen by the environment.  A table operation takes     *)
(* effect at the step that resolves it.                                    *)
(***************************************************************************)
EXTENDS Integers, FiniteSets, Sequences, TLC

\* ------------------------------------------------------------------ bounds
MaxConn == 3
NumUsers == 2
NumTopics == 2
NumHandlers == 2
NumSenders == 2
\* Connections live when two broadcasts race, or that come and go.
FewConns == 2

\* ------------------------------------------------------- program constants
TtlSeconds == 24 * 60 * 60
GoneStatus == 410
StatusOk == 200
StatusUnauthorized == 401
StatusInternal == 500
\* Milliseconds between two readings of the clock the model distinguishes.
TickMs == 1500

ConnIds == 1..MaxConn
Users == 1..NumUsers
Handlers == 1..NumHandlers
Senders == 1..NumSenders
TopicNames == <<"partners", "partner_updates", "partners_paris", "partners_food",
                "partners_paris_food", "partners_lyon">>
Topics == {TopicNames[i] : i \in 1..NumTopics}
Times == {0, TickMs}

\* ------------------------------------------------------------------ tokens
\* event.queryStringParameters?.token: undefined, the empty string, or a
\* string: a JWT (malformed, badly signed, expired or valid, carrying the id
\* claim of a user), with or without the "Bearer " prefix.
NoToken == [kind |-> "undefined"]
EmptyToken == [kind |-> "empty"]
JwtKinds == {"malformed", "badsig", "expired", "valid"}
TokenStrings == [kind : {"string"}, bearer : BOOLEAN, jwt : JwtKinds, id : Users]
Tokens == {NoToken, EmptyToken} \cup TokenStrings

\* !token
Falsy(token) == token.kind \in {"undefined", "empty"}

\* token.replace('Bearer ', '')
cleanToken(token) == [token EXCEPT !.bearer = FALSE]

\* A verifier that checks the signature but not the expiry.
jwtVerifyIgnoreExpiration(t) ==
    IF t.bearer \/ t.jwt \in {"malformed", "badsig"}
    THEN [ok |-> FALSE, id |-> 0]
    ELSE [ok |-> TRUE, id |-> t.id]

\* jwt.verify(cleanToken, JWT_SECRET): the payload, or a throw for a string
\* that is no JWT (one still carrying a prefix included), a bad signature or
\* an expired token.
jwtVerify(t) ==
    IF t.bearer \/ t.jwt # "valid"
    THEN [ok |-> FALSE, id |-> 0]
    ELSE [ok |-> TRUE, id |-> t.id]

\* verifyToken: any throw becomes Error('Token invalide').
verifyToken(token) == jwtVerify(cleanToken(token))

\* What the claims call a valid token: present, well formed, well signed, live.
ValidToken(token) == token.kind = "string" /\ token.jwt = "valid"

\* ---------------------------------------------------------------- registry
\* The connections table: at most one item per key connectionId.
NoRow == [absent |-> TRUE]

\* An item whose ttl adds the 24 hours to the clock's milliseconds.
connectionDataTtlMs(connectionId, userId, nowMs) ==
    [connectionId |-> connectionId,
     userId |-> userId,
     status |-> "connected",
     ttl |-> nowMs + TtlSeconds]

\* connectionData of the handler: it has no subscriptions attribute.
\* ttl = Math.floor(Date.now() / 1000) + 24 * 60 * 60.
connectionData(connectionId, userId, nowMs) ==
    [connectionId |-> connectionId,
     userId |-> userId,
     status |-> "connected",
     ttl |-> (nowMs \div 1000) + TtlSeconds]

\* An item with the subscriptions attribute set (by a later message).
Subscribed(row, subs) ==
    [connectionId |-> row.connectionId, userId |-> row.userId,
     status |-> row.status, ttl |-> row.ttl, subscriptions |-> subs]

VARIABLES registry, adm, snd, qry

vars == <<registry, adm, snd, qry>>

\* ------------------------------------------------------- $connect handler
IdleHandler ==
    [pc |-> "idle", connectionId |-> 0, token |-> NoToken, userId |-> 0,
     now |-> 0, put |-> "none", welcome |-> "none", statusCode |-> 0]

\* Lines 22-74: from the event to the first await.  A missing token and a
\* token verifyToken rejects return 401 at once; otherwise connectionData is
\* built from the decoded id and the clock, and the put is issued.
HandlerStart(h, connectionId, token, nowMs) ==
    /\ adm[h].pc = "idle"
    /\ IF Falsy(token)
       THEN adm' = [adm EXCEPT ![h] = [IdleHandler EXCEPT
                      !.pc = "done", !.connectionId = connectionId,
                      !.token = token, !.statusCode = StatusUnauthorized]]
       ELSE IF ~verifyToken(token).ok
       THEN adm' = [adm EXCEPT ![h] = [IdleHandler EXCEPT
                      !.pc = "done", !.connectionId = connectionId,
                      !.token = token, !.statusCode = StatusUnauthorized]]
       ELSE adm' = [adm EXCEPT ![h] = [IdleHandler EXCEPT
                      !.pc = "put", !.connectionId = connectionId,
                      !.token = token, !.userId = verifyToken(token).id,
                      !.now = nowMs, !.put = "pending"]]
    /\ UNCHANGED <<registry, snd, qry>>

\* The status the handler returns once the welcome push has settled: the
\* inner try/catch absorbs a failed push.
WelcomeStrictStatus(result) ==
    IF result = "delivered" THEN StatusOk ELSE StatusInternal

WelcomeStatus(result) == StatusOk

\* A put conditioned on the key being free: the first write wins.
putItemIfAbsent(table, item) ==
    IF table[item.connectionId] = NoRow
    THEN [table EXCEPT ![item.connectionId] = item]
    ELSE table

\* dynamodb.put({TableName, Item}), lines 71-74, once it took effect: the item
\* replaces whatever the table held under its key.
putItem(table, item) == [table EXCEPT ![item.connectionId] = item]

\* A handler that catches the failure of the put on the spot and goes on.
onPutResultCaught(ok) ==
    [pc |-> "welcome", put |-> IF ok THEN "ok" ELSE "failed",
     welcome |-> "pending", statusCode |-> 0]

\* Where the handler stands once the awaited put has resolved: a success
\* leads to the welcome push (lines 76-96), a failure to the outer catch and
\* its 500 (lines 109-120).
onPutResult(ok) ==
    IF ok
    THEN [pc |-> "welcome", put |-> "ok", welcome |-> "pending", statusCode |-> 0]
    ELSE [pc |-> "done", put |-> "failed", welcome |-> "none",
          statusCode |-> StatusInternal]

\* Lines 71-96: the put resolved.  On success the item replaces whatever the
\* table held under the key and the welcome push is issued; on failure the
\* outer catch returns 500.
HandlerPut(h, ok) ==
    /\ adm[h].pc = "put"
    /\ registry' = IF ok
                   THEN putItem(registry,
                          connectionData(adm[h].connectionId, adm[h].userId, adm[h].now))
                   ELSE registry
    /\ LET after == onPutResult(ok)
       IN adm' = [adm EXCEPT ![h].pc = after.pc, ![h].put = after.put,
                             ![h].welcome = after.welcome,
                             ![h].statusCode = after.statusCode]
    /\ UNCHANGED <<snd, qry>>

PushResults == {"delivered", "gone", "serverError", "timeout"}

\* Lines 92-107: the welcome push settled, delivered or not.
HandlerWelcome(h, result) ==
    /\ adm[h].pc = "welcome"
    /\ adm' = [adm EXCEPT ![h].pc = "done", ![h].welcome = result,
                          ![h].statusCode = WelcomeStatus(result)]
    /\ UNCHANGED <<registry, snd, qry>>

\* The invocation is over; the next $connect event may come.
HandlerReturn(h) ==
    /\ adm[h].pc = "done"
    /\ adm' = [adm EXCEPT ![h] = IdleHandler]
    /\ UNCHANGED <<registry, snd, qry>>

\* ------------------------------------------------------ registry reads
\* connection.subscriptions || []
OrEmpty(connection) ==
    IF "subscriptions" \in DOMAIN connection THEN connection.subscriptions ELSE {}

Items(table) == {table[c] : c \in {d \in ConnIds : table[d] # NoRow}}

\* scan with FilterExpression '#status = :status', :status = 'connected'
getAllActiveConnections(table) ==
    {item \in Items(table) : item.status = "connected"}

\* A scan filtered on the user alone.
getUserConnectionsAnyStatus(table, userId) ==
    {item \in Items(table) : item.userId = userId}

\* scan with FilterExpression 'userId = :userId AND #status = :status'
getUserConnections(table, userId) ==
    {item \in Items(table) : item.userId = userId /\ item.status = "connected"}

\* A filter keeping the connections subscribed to every one of the topics.
getSubscriberConnectionsEvery(table, topics) ==
    {connection \in getAllActiveConnections(table) :
        \A topic \in topics : topic \in OrEmpty(connection)}

\* allConnections.filter(c => topics.some(t => (c.subscriptions || []).includes(t)))
getSubscriberConnections(table, topics) ==
    {connection \in getAllActiveConnections(table) :
        \E topic \in topics : topic \in OrEmpty(connection)}

\* A scan that drops the items it filters out.
scanPruning(table) ==
    [c \in ConnIds |->
        IF table[c] # NoRow /\ table[c].status = "connected" THEN table[c] ELSE NoRow]

\* The table after dynamodb.scan(params), lines 155, 173: a scan writes nothing.
scan(table) == table

\* A delete that marks the item closing and leaves it in the table.
deleteItemSoft(table, connectionId) ==
    IF table[connectionId] = NoRow THEN table
    ELSE [table EXCEPT ![connectionId].status = "closing"]

\* dynamodb.delete({Key: {connectionId}}) that took effect.
deleteItem(table, connectionId) == [table EXCEPT ![connectionId] = NoRow]

\* ------------------------------------------------------------- broadcasts
\* error.statusCode of a rejected postToConnection; 0 stands for undefined
\* (a timeout or a network error carries no status code).
statusCode(result) ==
    CASE result = "gone" -> GoneStatus
      [] result = "serverError" -> StatusInternal
      [] OTHER -> 0

NoAttempt == [push |-> "none", del |-> "none", task |-> "none"]

\* The value of an async function that ends without a return statement.
Undefined == [defined |-> FALSE, outcomes |-> {}]

IdleSender ==
    [pc |-> "idle", op |-> "none", userId |-> 0, topics |-> {},
     city |-> "", category |-> "",
     scan |-> "none", targets |-> {}, att |-> [c \in ConnIds |-> NoAttempt],
     send |-> "none", ret |-> Undefined, outcome |-> "none"]

\* notifyUser, line 98: the scan for the user's connections is issued.
notifyUser(b, userId) ==
    /\ snd[b].pc = "idle"
    /\ snd' = [snd EXCEPT ![b] = [IdleSender EXCEPT
                 !.pc = "scan", !.op = "notifyUser", !.userId = userId,
                 !.scan = "pending", !.outcome = "pending"]]
    /\ UNCHANGED <<registry, adm, qry>>

\* broadcastToAll, line 119.
broadcastToAll(b) ==
    /\ snd[b].pc = "idle"
    /\ snd' = [snd EXCEPT ![b] = [IdleSender EXCEPT
                 !.pc = "scan", !.op = "broadcastToAll",
                 !.scan = "pending", !.outcome = "pending"]]
    /\ UNCHANGED <<registry, adm, qry>>

\* broadcastToSubscribers, line 134.
broadcastToSubscribers(b, topics) ==
    /\ snd[b].pc = "idle"
    /\ snd' = [snd EXCEPT ![b] = [IdleSender EXCEPT
                 !.pc = "scan", !.op = "broadcastToSubscribers", !.topics = topics,
                 !.scan = "pending", !.outcome = "pending"]]
    /\ UNCHANGED <<registry, adm, qry>>

\* The cities and categories partners are filed under, as callers pass them.
Cities == {"Paris", "Lyon"}
Categories == {"food"}

\* String.prototype.toLowerCase on the city names.
toLowerCase(s) ==
    CASE s = "Paris" -> "paris"
      [] s = "Lyon" -> "lyon"
      [] OTHER -> s

\* Topics built from the city as the caller wrote it.
locationTopicsRaw(city, category) ==
    {"partners",
     "partners_" \o city,
     "partners_" \o category,
     "partners_" \o city \o "_" \o category}

\* Lines 55-60: the four topics of a partner change filed under a city and a
\* category; the city is lower-cased, the category is taken as it is.
locationTopics(city, category) ==
    {"partners",
     "partners_" \o toLowerCase(city),
     "partners_" \o category,
     "partners_" \o toLowerCase(city) \o "_" \o category}

\* notifyPartnerChangeByLocation, lines 42-62: the topics are built and
\* broadcastToSubscribers issues its scan.
notifyPartnerChangeByLocation(b, city, category) ==
    /\ snd[b].pc = "idle"
    /\ snd' = [snd EXCEPT ![b] = [IdleSender EXCEPT
                 !.pc = "scan", !.op = "broadcastToSubscribers",
                 !.topics = locationTopics(city, category),
                 !.city = city, !.category = category,
                 !.scan = "pending", !.outcome = "pending"]]
    /\ UNCHANGED <<registry, adm, qry>>

\* The connections the pending scan of a broadcast yields on this table.
Resolved(s, table) ==
    CASE s.op = "notifyUser" -> getUserConnections(table, s.userId)
      [] s.op = "broadcastToAll" -> getAllActiveConnections(table)
      [] OTHER -> getSubscriberConnections(table, s.topics)

\* catch (error) { console.error(...) } of notifyUser, broadcastToAll and
\* broadcastToSubscribers: the promise of the broadcast is fulfilled.
broadcastCatch(error) == "fulfilled"

\* The scan of a broadcast rejected (table unreachable): the catch of the
\* broadcast takes it; sendToConnections is never called.
ScanFail(b) ==
    /\ snd[b].pc = "scan"
    /\ snd' = [snd EXCEPT ![b].pc = "done", ![b].scan = "failed",
                          ![b].outcome = broadcastCatch("scan")]
    /\ UNCHANGED <<registry, adm, qry>>

\* A loop that starts the push of the first connection only and would start
\* the next one when that push has succeeded.
startTasksInTurn(ids) ==
    [c \in ConnIds |->
        IF c \in ids /\ \A d \in ids : c <= d
        THEN [push |-> "pending", del |-> "none", task |-> "pending"]
        ELSE NoAttempt]

\* A loop over every connection id the service knows of, scanned or not.
startTasksEvery(ids) ==
    [c \in ConnIds |-> [push |-> "pending", del |-> "none", task |-> "pending"]]

\* connections.map(async (connection) => ...), line 200: every task starts
\* and runs to its await of postToConnection.
startTasks(ids) ==
    [c \in ConnIds |->
        IF c \in ids
        THEN [push |-> "pending", del |-> "none", task |-> "pending"]
        ELSE NoAttempt]

\* The scan of a broadcast resolved.  notifyUser returns on an empty result
\* (line 100) and sendToConnections returns on an empty list (line 196);
\* otherwise connections.map starts every task, each running to its await of
\* postToConnection.
ScanDone(b) ==
    /\ snd[b].pc = "scan"
    /\ LET ids == {item.connectionId : item \in Resolved(snd[b], registry)}
       IN IF ids = {}
          THEN snd' = [snd EXCEPT ![b].pc = "done", ![b].scan = "ok",
                         ![b].send = IF snd[b].op = "notifyUser"
                                     THEN "none" ELSE "fulfilled",
                         ![b].outcome = "fulfilled"]
          ELSE snd' = [snd EXCEPT ![b].pc = "send", ![b].scan = "ok",
                         ![b].targets = ids, ![b].send = "pending",
                         ![b].att = startTasks(ids)]
    /\ UNCHANGED <<registry, adm, qry>>

\* A catch block that cleans up after any failed push.
onPushErrorAny(code) == [del |-> "pending", task |-> "pending"]

\* A catch block that starts cleanupConnection without awaiting it.
onPushErrorNoAwait(code) ==
    IF code = GoneStatus
    THEN [del |-> "pending", task |-> "fulfilled"]
    ELSE [del |-> "none", task |-> "fulfilled"]

\* A catch block that, after an error other than 410, waits for something
\* that never comes.
onPushErrorHang(code) ==
    IF code = GoneStatus
    THEN [del |-> "pending", task |-> "pending"]
    ELSE [del |-> "none", task |-> "pending"]

\* Lines 214-221: the catch block of a task.  On 410 cleanupConnection is
\* awaited (its delete is issued); any other error ends the task.
onPushError(code) ==
    IF code = GoneStatus
    THEN [del |-> "pending", task |-> "pending"]
    ELSE [del |-> "none", task |-> "fulfilled"]

\* postToConnection of the task for connection c settled.
PushSettle(b, c, result) ==
    /\ snd[b].pc = "send"
    /\ snd[b].att[c].push = "pending"
    /\ LET after == IF result = "delivered"
                    THEN [del |-> "none", task |-> "fulfilled"]
                    ELSE onPushError(statusCode(result))
       IN snd' = [snd EXCEPT ![b].att[c] =
                     [push |-> result, del |-> after.del, task |-> after.task]]
    /\ UNCHANGED <<registry, adm, qry>>

\* A cleanup whose delete names no item of the table.
cleanupWrongKey(table, connectionId) == table

\* A cleanup that deletes the first item of the table, whichever connection
\* was found gone.
cleanupFirstConnection(table, connectionId) ==
    LET present == {c \in ConnIds : table[c] # NoRow}
    IN IF present = {} THEN table
       ELSE deleteItem(table, CHOOSE c \in present : \A d \in present : c <= d)

\* cleanupConnection, lines 232-235, once the delete took effect.
cleanupConnection(table, connectionId) == deleteItem(table, connectionId)

\* A delete conditioned on the item's existence: it is refused when the
\* table holds no item under the key.
deleteResultIfExists(table, connectionId) ==
    IF table[connectionId] = NoRow THEN "missing" ELSE "ok"

\* The answer of the table to the delete of lines 232-235, which carries no
\* ConditionExpression: it succeeds whether or not the item exists.
deleteResult(table, connectionId) == "ok"

\* A cleanup that lets the error of its delete through to the task.
cleanupRethrow(result) == IF result = "ok" THEN "fulfilled" ELSE "rejected"

\* Lines 236-241: cleanupConnection logs the error of its delete and returns;
\* the task that awaited it ends fulfilled either way.
cleanupCatch(result) == "fulfilled"

\* The delete of cleanupConnection resolved: answered by the table, or failed
\* because the table could not be reached.  A failure is caught inside
\* cleanupConnection (line 239); either way the task ends.
DeleteSettle(b, c, ok) ==
    /\ snd[b].pc = "send"
    /\ snd[b].att[c].del = "pending"
    /\ LET result == IF ok THEN deleteResult(registry, c) ELSE "failed"
       IN /\ registry' = IF result = "ok"
                         THEN cleanupConnection(registry, c) ELSE registry
          /\ snd' = [snd EXCEPT ![b].att[c].del = result,
                                ![b].att[c].task = cleanupCatch(result)]
    /\ UNCHANGED <<adm, qry>>

Settled(a) == a.task \in {"fulfilled", "rejected"}

\* A join that is fulfilled as soon as one task has settled.
joinAny(att, targets) ==
    IF \E c \in targets : Settled(att[c]) THEN "fulfilled" ELSE "pending"

\* A join that rejects as soon as one push has failed.
joinFailFast(att, targets) ==
    IF \E c \in targets : att[c].push \in PushResults \ {"delivered"}
    THEN "rejected"
    ELSE IF \A c \in targets : Settled(att[c]) THEN "fulfilled" ELSE "pending"

\* Promise.allSettled(tasks): fulfilled once every task has settled.
allSettled(att, targets) ==
    IF \A c \in targets : Settled(att[c]) THEN "fulfilled" ELSE "pending"

\* Line 224 and the return of the broadcast: the join of the tasks settled.
\* sendToConnections has no return statement; a rejection would be taken by
\* the catch of the broadcast.
SendSettle(b) ==
    /\ snd[b].pc = "send"
    /\ allSettled(snd[b].att, snd[b].targets) # "pending"
    /\ snd' = [snd EXCEPT ![b].pc = "done",
                 ![b].send = allSettled(snd[b].att, snd[b].targets),
                 ![b].ret = Undefined,
                 ![b].outcome =
                    IF allSettled(snd[b].att, snd[b].targets) = "fulfilled"
                    THEN "fulfilled" ELSE broadcastCatch("send")]
    /\ UNCHANGED <<registry, adm, qry>>

\* The broadcast is over; the service takes the next one.
SenderReturn(b) ==
    /\ snd[b].pc = "done"
    /\ snd' = [snd EXCEPT ![b] = IdleSender]
    /\ UNCHANGED <<registry, adm, qry>>

\* ---------------------------------------------------------- topic router
\* What getConnectionStats returns from its catch block.
Null == [null |-> TRUE]

IdleQuery ==
    [pc |-> "idle", op |-> "none", topics |-> {}, result |-> {},
     stats |-> Null, outcome |-> "none"]

\* getSubscriberConnections(topics), line 183: the scan is issued.
resolveCall(topics) ==
    /\ qry.pc = "idle"
    /\ qry' = [IdleQuery EXCEPT !.pc = "scan", !.op = "getSubscriberConnections",
                                !.topics = topics, !.outcome = "pending"]
    /\ UNCHANGED <<registry, adm, snd>>

\* Lines 186-189: the scan resolved and its items are filtered.
resolveDone ==
    /\ qry.pc = "scan"
    /\ qry.op = "getSubscriberConnections"
    /\ qry' = [qry EXCEPT !.pc = "done", !.outcome = "fulfilled",
                          !.result = getSubscriberConnections(registry, qry.topics)]
    /\ registry' = scan(registry)
    /\ UNCHANGED <<adm, snd>>

\* The scan rejected: getSubscriberConnections has no catch and rejects too.
resolveFail ==
    /\ qry.pc = "scan"
    /\ qry.op = "getSubscriberConnections"
    /\ qry' = [qry EXCEPT !.pc = "done", !.outcome = "rejected"]
    /\ UNCHANGED <<registry, adm, snd>>

\* A counter that is set to one instead of being incremented.
incrementOnce(counts, key) ==
    IF key \in DOMAIN counts THEN [counts EXCEPT ![key] = 1] ELSE counts @@ (key :> 1)

\* counts[key] = (counts[key] || 0) + 1, lines 262 and 265.
increment(counts, key) ==
    IF key \in DOMAIN counts THEN [counts EXCEPT ![key] = @ + 1] ELSE counts @@ (key :> 1)

\* The forEach of lines 260-267, one increment after another: a count is a
\* connection with a key it counts under, its user or one of its topics.
RECURSIVE tally(_, _)
tally(counted, counts) ==
    IF counted = {} THEN counts
    ELSE LET x == CHOOSE y \in counted : TRUE
         IN tally(counted \ {x}, increment(counts, x[2]))

\* getConnectionStats, lines 249-269: the statistics of the scanned items.
getConnectionStats(table) ==
    LET connections == getAllActiveConnections(table)
    IN [total |-> Cardinality(connections),
        byUser |-> tally({<<connection, connection.userId>> :
                             connection \in connections}, <<>>),
        byTopic |-> tally(UNION {{<<connection, topic>> :
                                     topic \in OrEmpty(connection)} :
                                 connection \in connections}, <<>>)]

\* getConnectionStats, line 249: the scan is issued.
statsCall ==
    /\ qry.pc = "idle"
    /\ qry' = [IdleQuery EXCEPT !.pc = "scan", !.op = "getConnectionStats",
                                !.outcome = "pending"]
    /\ UNCHANGED <<registry, adm, snd>>

\* Lines 251-269: the scan resolved and the statistics are returned.
statsDone ==
    /\ qry.pc = "scan"
    /\ qry.op = "getConnectionStats"
    /\ qry' = [qry EXCEPT !.pc = "done", !.outcome = "fulfilled",
                          !.stats = getConnectionStats(registry)]
    /\ registry' = scan(registry)
    /\ UNCHANGED <<adm, snd>>

\* Lines 270-273: the scan rejected; the catch block returns null.
statsFail ==
    /\ qry.pc = "scan"
    /\ qry.op = "getConnectionStats"
    /\ qry' = [qry EXCEPT !.pc = "done", !.outcome = "fulfilled", !.stats = Null]
    /\ UNCHANGED <<registry, adm, snd>>

QueryReturn ==
    /\ qry.pc = "done"
    /\ qry' = IdleQuery
    /\ UNCHANGED <<registry, adm, snd>>

\* --------------------------------------------------------- specifications
\* The user a connection id belongs to in the initial tables.
OwnerOf(c) == ((c - 1) % NumUsers) + 1

\* The items the table can hold: what the handler wrote (at any reading of
\* the clock), with the subscriptions and the status later messages left.
HandlerRows(c) == {connectionData(c, u, t) : u \in Users, t \in Times}

Rows(c) ==
    HandlerRows(c)
    \cup {Subscribed(r, subs) : r \in HandlerRows(c), subs \in SUBSET Topics}
    \cup {[r EXCEPT !.status = "closing"] : r \in HandlerRows(c)}
    \cup {[Subscribed(r, subs) EXCEPT !.status = "closing"] :
             r \in HandlerRows(c), subs \in SUBSET Topics}

\* What an initial table holds under one key: nothing, or the item the
\* handler wrote for the key's owner at the first reading of the clock, as
\* later messages left it (subscriptions set or not, closing or not).
Shapes ==
    {[present |-> FALSE, status |-> "connected", subscribed |-> FALSE, subs |-> {}]}
    \cup {[present |-> TRUE, status |-> "connected", subscribed |-> FALSE, subs |-> {}]}
    \cup [present : {TRUE}, status : {"connected"}, subscribed : {TRUE},
          subs : SUBSET Topics]
    \cup {[present |-> TRUE, status |-> "closing", subscribed |-> TRUE,
            subs |-> Topics]}

\* For a fan-out: connected items, unsubscribed or subscribed to the first
\* topic, and items left closing.
SendShapes ==
    {sh \in Shapes : sh.status = "closing" \/ sh.subs \subseteq {TopicNames[1]}}

RowOf(c, sh) ==
    IF ~sh.present THEN NoRow
    ELSE IF ~sh.subscribed THEN connectionData(c, OwnerOf(c), 0)
    ELSE [Subscribed(connectionData(c, OwnerOf(c), 0), sh.subs)
             EXCEPT !.status = sh.status]

TypeOK ==
    /\ \A c \in ConnIds : registry[c] = NoRow \/ registry[c] \in Rows(c)
    /\ \A h \in Handlers : adm[h].pc \in {"idle", "put", "welcome", "done"}
    /\ \A b \in Senders : snd[b].pc \in {"idle", "scan", "send", "done"}
    /\ qry.pc \in {"idle", "scan", "done"}

Idle ==
    /\ adm = [h \in Handlers |-> IdleHandler]
    /\ snd = [b \in Senders |-> IdleSender]
    /\ qry = IdleQuery

\* A fresh deployment: an empty table.
Init ==
    /\ registry = [c \in ConnIds |-> NoRow]
    /\ Idle

InitSend ==
    /\ \E shape \in [ConnIds -> SendShapes] :
          registry = [c \in ConnIds |-> RowOf(c, shape[c])]
    /\ Idle

InitQuery ==
    /\ \E shape \in [ConnIds -> Shapes] :
          registry = [c \in ConnIds |-> RowOf(c, shape[c])]
    /\ Idle

\* The subscriptions of the clients that follow partners by location: none,
\* or one topic: every partner, a city, a category, a city and a category, or
\* a city spelled with its capital.
LocationSubs ==
    {{}, {"partners"}, {"partners_paris"}, {"partners_lyon"}, {"partners_food"},
     {"partners_paris_food"}, {"partners_Paris"}}

LocationShapes ==
    {[present |-> FALSE, status |-> "connected", subscribed |-> FALSE, subs |-> {}]}
    \cup [present : {TRUE}, status : {"connected"}, subscribed : {TRUE},
          subs : LocationSubs]

InitLocation ==
    /\ \E shape \in [ConnIds -> LocationShapes] :
          registry = [c \in ConnIds |-> RowOf(c, shape[c])]
    /\ Idle

\* One partner change at a time, broadcast by location.
NextLocation ==
    \/ \E b \in {1}, city \in Cities, category \in Categories :
          notifyPartnerChangeByLocation(b, city, category)
    \/ \E b \in {1} : ScanFail(b)
    \/ \E b \in {1} : ScanDone(b)
    \/ \E b \in {1}, c \in ConnIds, result \in PushResults : PushSettle(b, c, result)
    \/ \E b \in {1}, c \in ConnIds, ok \in BOOLEAN : DeleteSettle(b, c, ok)
    \/ \E b \in {1} : SendSettle(b)
    \/ \E b \in {1} : SenderReturn(b)

\* The first connections are live, as the handler admitted them.
InitRace ==
    /\ registry = [c \in ConnIds |->
                     IF c <= FewConns THEN connectionData(c, OwnerOf(c), 0)
                     ELSE NoRow]
    /\ Idle

\* Two broadcasts at a time, to a user or to all, interleaved.
NextRace ==
    \/ \E b \in {1, 2}, u \in Users : notifyUser(b, u)
    \/ \E b \in {1, 2} : broadcastToAll(b)
    \/ \E b \in {1, 2} : ScanFail(b)
    \/ \E b \in {1, 2} : ScanDone(b)
    \/ \E b \in {1, 2}, c \in ConnIds, result \in PushResults : PushSettle(b, c, result)
    \/ \E b \in {1, 2}, c \in ConnIds, ok \in BOOLEAN : DeleteSettle(b, c, ok)
    \/ \E b \in {1, 2} : SendSettle(b)
    \/ \E b \in {1, 2} : SenderReturn(b)

\* Two $connect events, each served by its own invocation, interleaved.
NextDup ==
    \/ \E h \in {1, 2}, c \in ConnIds, token \in Tokens, t \in Times :
          HandlerStart(h, c, token, t)
    \/ \E h \in {1, 2}, ok \in BOOLEAN : HandlerPut(h, ok)
    \/ \E h \in {1, 2}, result \in PushResults : HandlerWelcome(h, result)

\* The valid tokens sent without a prefix.
BareTokens == {token \in TokenStrings : ValidToken(token) /\ ~token.bearer}

\* Connections that come and go: $connect events for the first connection
\* ids, one at a time and at the first reading of the clock, without a token or
\* with the valid token of the owner, while broadcasts to a user or to all
\* run, one at a time.
NextLife ==
    \/ \E h \in {1}, c \in 1..FewConns :
          \E token \in {NoToken} \cup {bare \in BareTokens : bare.id = OwnerOf(c)} :
             HandlerStart(h, c, token, 0)
    \/ \E h \in {1}, ok \in BOOLEAN : HandlerPut(h, ok)
    \/ \E h \in {1}, result \in PushResults : HandlerWelcome(h, result)
    \/ \E h \in {1} : HandlerReturn(h)
    \/ \E b \in {1}, u \in Users : notifyUser(b, u)
    \/ \E b \in {1} : broadcastToAll(b)
    \/ \E b \in {1} : ScanFail(b)
    \/ \E b \in {1} : ScanDone(b)
    \/ \E b \in {1}, c \in ConnIds, result \in PushResults : PushSettle(b, c, result)
    \/ \E b \in {1}, c \in ConnIds, ok \in BOOLEAN : DeleteSettle(b, c, ok)
    \/ \E b \in {1} : SendSettle(b)
    \/ \E b \in {1} : SenderReturn(b)

\* Some of the first connections are live, as the handler admitted them.
InitOverlap ==
    /\ \E live \in SUBSET (1..FewConns) :
          registry = [c \in ConnIds |->
                         IF c \in live THEN connectionData(c, OwnerOf(c), 0)
                         ELSE NoRow]
    /\ Idle

\* One $connect event, one broadcast to all (the first sender) and one
\* notification to a user (the second sender), interleaved.
NextOverlap ==
    \/ \E h \in {1}, c \in 1..FewConns :
          \E token \in {NoToken} \cup {bare \in BareTokens : bare.id = OwnerOf(c)} :
             HandlerStart(h, c, token, 0)
    \/ \E h \in {1}, ok \in BOOLEAN : HandlerPut(h, ok)
    \/ \E h \in {1}, result \in PushResults : HandlerWelcome(h, result)
    \/ \E b \in {1} : broadcastToAll(b)
    \/ \E b \in {2}, u \in Users : notifyUser(b, u)
    \/ \E b \in {1, 2} : ScanFail(b)
    \/ \E b \in {1, 2} : ScanDone(b)
    \/ \E b \in {1, 2}, c \in ConnIds, result \in PushResults : PushSettle(b, c, result)
    \/ \E b \in {1, 2}, c \in ConnIds, ok \in BOOLEAN : DeleteSettle(b, c, ok)
    \/ \E b \in {1, 2} : SendSettle(b)

\* One $connect event at a time: the first handler invocation alone.
NextAdmit ==
    \/ \E h \in {1}, c \in ConnIds, token \in Tokens, t \in Times :
          HandlerStart(h, c, token, t)
    \/ \E h \in {1}, ok \in BOOLEAN : HandlerPut(h, ok)
    \/ \E h \in {1}, result \in PushResults : HandlerWelcome(h, result)
    \/ \E h \in {1} : HandlerReturn(h)

\* $connect events of every invocation, interleaved.
NextHandlers ==
    \/ \E h \in Handlers, c \in ConnIds, token \in Tokens, t \in Times :
          HandlerStart(h, c, token, t)
    \/ \E h \in Handlers, ok \in BOOLEAN : HandlerPut(h, ok)
    \/ \E h \in Handlers, result \in PushResults : HandlerWelcome(h, result)
    \/ \E h \in Handlers : HandlerReturn(h)

\* One broadcast at a time: the first sender alone.
NextSend ==
    \/ \E b \in {1}, u \in Users : notifyUser(b, u)
    \/ \E b \in {1} : broadcastToAll(b)
    \/ \E b \in {1}, topics \in SUBSET Topics : broadcastToSubscribers(b, topics)
    \/ \E b \in {1} : ScanFail(b)
    \/ \E b \in {1} : ScanDone(b)
    \/ \E b \in {1}, c \in ConnIds, result \in PushResults : PushSettle(b, c, result)
    \/ \E b \in {1}, c \in ConnIds, ok \in BOOLEAN : DeleteSettle(b, c, ok)
    \/ \E b \in {1} : SendSettle(b)
    \/ \E b \in {1} : SenderReturn(b)

\* Broadcasts of every sender, interleaved.
NextBroadcast ==
    \/ \E b \in Senders, u \in Users : notifyUser(b, u)
    \/ \E b \in Senders : broadcastToAll(b)
    \/ \E b \in Senders, topics \in SUBSET Topics : broadcastToSubscribers(b, topics)
    \/ \E b \in Senders : ScanFail(b)
    \/ \E b \in Senders : ScanDone(b)
    \/ \E b \in Senders, c \in ConnIds, result \in PushResults : PushSettle(b, c, result)
    \/ \E b \in Senders, c \in ConnIds, ok \in BOOLEAN : DeleteSettle(b, c, ok)
    \/ \E b \in Senders : SendSettle(b)
    \/ \E b \in Senders : SenderReturn(b)

NextQuery ==
    \/ \E topics \in SUBSET Topics : resolveCall(topics)
    \/ resolveDone
    \/ resolveFail
    \/ statsCall
    \/ statsDone
    \/ statsFail
    \/ QueryReturn

Next == NextHandlers \/ NextBroadcast

Spec == Init /\ [][Next]_vars
SpecAdmit == Init /\ [][NextAdmit]_vars
SpecSend == InitSend /\ [][NextSend]_vars
SpecQuery == InitQuery /\ [][NextQuery]_vars
SpecLocation == InitLocation /\ [][NextLocation]_vars
SpecRace == InitRace /\ [][NextRace]_vars
SpecDup == Init /\ [][NextDup]_vars
SpecLife == Init /\ [][NextLife]_vars
SpecOverlap == InitOverlap /\ [][NextOverlap]_vars

\* Every push and every delete a send has issued resolves in the end, and the
\* event loop runs the continuation of a join that has settled.
FairSend ==
    /\ \A c \in ConnIds : WF_vars(\E result \in PushResults : PushSettle(1, c, result))
    /\ \A c \in ConnIds : WF_vars(\E ok \in BOOLEAN : DeleteSettle(1, c, ok))
    /\ WF_vars(SendSettle(1))

SpecSendFair == InitSend /\ [][NextSend]_vars /\ FairSend

\* ------------------------------------------------------------ admission
\* C1: an admission request whose token is missing, malformed, badly signed
\* or expired is answered 401 at once: no put is ever issued for it, no
\* welcome push is attempted, and the step that takes the request leaves the
\* registry as it was.
C1_InvalidTokenRefused ==
    /\ [](\A h \in Handlers :
            (adm[h].pc # "idle" /\ ~ValidToken(adm[h].token)) =>
                /\ adm[h].pc = "done"
                /\ adm[h].statusCode = StatusUnauthorized
                /\ adm[h].put = "none"
                /\ adm[h].welcome = "none")
    /\ [][\A h \in Handlers :
            (adm[h].pc = "idle" /\ adm'[h].pc # "idle" /\ ~ValidToken(adm'[h].token))
                => registry' = registry]_vars

\* An expired token sent with the Bearer prefix was refused while the table
\* holds no item under the request's connection id.
C1_Witness ==
    \E h \in Handlers :
        /\ adm[h].pc = "done"
        /\ adm[h].token.kind = "string"
        /\ adm[h].token.jwt = "expired"
        /\ adm[h].token.bearer
        /\ adm[h].statusCode = StatusUnauthorized
        /\ registry[adm[h].connectionId] = NoRow

\* C2: an admission request with a valid token is never refused; when its
\* put succeeds, that step writes exactly one item, under the request's
\* connection id: owner the id of the token, status connected, no
\* subscription, expiry the whole second of the admission time plus 24 hours,
\* every other item left alone; and the handler then returns 200.
C2_ValidTokenAdmitted ==
    /\ [](\A h \in Handlers :
            (adm[h].pc = "done" /\ ValidToken(adm[h].token)) =>
                \/ adm[h].put = "ok" /\ adm[h].statusCode = StatusOk
                \/ adm[h].put = "failed" /\ adm[h].statusCode = StatusInternal)
    /\ [][\A h \in Handlers :
            (adm[h].pc = "put" /\ adm'[h].put = "ok") =>
                LET c == adm[h].connectionId
                    row == registry'[c]
                    due == adm[h].now + TtlSeconds * 1000
                IN /\ ValidToken(adm[h].token)
                   /\ row # NoRow
                   /\ row.connectionId = c
                   /\ row.userId = adm[h].token.id
                   /\ row.status = "connected"
                   /\ OrEmpty(row) = {}
                   /\ row.ttl * 1000 <= due
                   /\ due < (row.ttl + 1) * 1000
                   /\ \A d \in ConnIds \ {c} : registry'[d] = registry[d]]_vars

\* A valid token sent with the Bearer prefix at the second reading of the
\* clock was admitted: the item is there and the handler returned 200.
C2_Witness ==
    \E h \in Handlers :
        /\ adm[h].pc = "done"
        /\ ValidToken(adm[h].token)
        /\ adm[h].token.bearer
        /\ adm[h].now = TickMs
        /\ adm[h].statusCode = StatusOk
        /\ registry[adm[h].connectionId] # NoRow
        /\ registry[adm[h].connectionId].userId = adm[h].token.id

\* C9: the step that settles a failed welcome push leaves the registry as it
\* is (no rollback of the item written) and the handler returns 200.
C9_WelcomeFailureKeepsAdmission ==
    [][\A h \in Handlers :
          (adm[h].pc = "welcome" /\ adm'[h].pc = "done"
              /\ adm'[h].welcome # "delivered") =>
                /\ registry' = registry
                /\ adm'[h].statusCode = StatusOk]_vars

\* The welcome push was answered gone; the item is in the table and the
\* handler returned 200.
C9_Witness ==
    \E h \in Handlers :
        /\ adm[h].pc = "done"
        /\ adm[h].welcome = "gone"
        /\ adm[h].statusCode = StatusOk
        /\ registry[adm[h].connectionId] # NoRow

\* ------------------------------------------------------------- fan-out
\* The outcomes a value returned by sendToConnections carries.
OutcomesOf(ret) == IF ret.defined THEN ret.outcomes ELSE {}

SendCalled(b) == snd[b].send # "none"

\* C3 as stated: a send over N targets returns N per-connection outcomes.
C3_ReturnsOutcomes ==
    \A b \in Senders :
        (snd[b].pc = "done" /\ SendCalled(b)) =>
            Cardinality(OutcomesOf(snd[b].ret)) = Cardinality(snd[b].targets)

\* C3, amended: a send over N targets completes only with N settled
\* attempts, one per target, each with its own push outcome, whatever subset
\* of them failed; the call is fulfilled and returns no value (the outcomes
\* are not handed to the caller).
C3_SettlesEveryTarget ==
    \A b \in Senders :
        (snd[b].pc = "done" /\ SendCalled(b)) =>
            /\ snd[b].send = "fulfilled"
            /\ Cardinality({c \in ConnIds : Settled(snd[b].att[c])})
                  = Cardinality(snd[b].targets)
            /\ \A c \in snd[b].targets :
                  Settled(snd[b].att[c]) /\ snd[b].att[c].push \in PushResults
            /\ snd[b].ret = Undefined

\* A send over every connection id completed, one push answered gone and
\* another with a server error.
C3_Witness ==
    \E b \in Senders :
        /\ snd[b].pc = "done"
        /\ snd[b].targets = ConnIds
        /\ \E c, d \in ConnIds :
              snd[b].att[c].push = "gone" /\ snd[b].att[d].push = "serverError"
        /\ snd[b].ret = Undefined

C5_SettleAll ==
    \A b \in Senders :
        snd[b].send \in {"fulfilled", "rejected"} =>
            \A c \in snd[b].targets :
                /\ snd[b].att[c].push \in PushResults
                /\ snd[b].att[c].del # "pending"
                /\ Settled(snd[b].att[c])

\* A send completed after one push timed out and another was answered gone,
\* the delete of the reap having failed.
C5_Witness ==
    \E b \in Senders :
        /\ snd[b].send = "fulfilled"
        /\ \E c, d \in snd[b].targets :
              /\ snd[b].att[c].push = "timeout"
              /\ snd[b].att[d].push = "gone"
              /\ snd[b].att[d].del = "failed"

\* C6: cleanupConnection is invoked only for a target whose own push was
\* answered gone, and a step of a send changes the registry only by
\* removing the item of such a target as its delete resolves.
C6_ReapOnlyGone ==
    /\ [](\A b \in Senders : \A c \in ConnIds :
            snd[b].att[c].del # "none" =>
                c \in snd[b].targets /\ snd[b].att[c].push = "gone")
    /\ [][(snd' # snd /\ registry' # registry) =>
            \E b \in Senders : \E c \in snd[b].targets :
                /\ snd[b].att[c].push = "gone"
                /\ snd[b].att[c].del = "pending"
                /\ snd'[b].att[c].del = "ok"
                /\ registry' = [registry EXCEPT ![c] = NoRow]]_vars

\* A send over every connection id completed with a delivery, a server error
\* and a timeout, and all the items are still in the registry.
C6_Witness ==
    \E b \in Senders :
        /\ snd[b].pc = "done"
        /\ snd[b].targets = ConnIds
        /\ \E c, d, e \in ConnIds :
              /\ snd[b].att[c].push = "delivered"
              /\ snd[b].att[d].push = "serverError"
              /\ snd[b].att[e].push = "timeout"
        /\ \A c \in ConnIds : registry[c] # NoRow

\* C7: a send call is never rejected: from its start a push has been issued
\* to every one of its targets, and it completes fulfilled with an outcome
\* for each of them, failures included.
C7_FailuresAbsorbed ==
    \A b \in Senders :
        /\ snd[b].send # "rejected"
        /\ (snd[b].pc \in {"send", "done"} /\ SendCalled(b)) =>
              \A c \in snd[b].targets : snd[b].att[c].push # "none"
        /\ (snd[b].pc = "done" /\ SendCalled(b)) =>
              /\ snd[b].send = "fulfilled"
              /\ \A c \in snd[b].targets : snd[b].att[c].push \in PushResults

\* A send over every connection id completed normally though no push was
\* delivered: one answered gone, one timed out.
C7_Witness ==
    \E b \in Senders :
        /\ snd[b].pc = "done"
        /\ snd[b].send = "fulfilled"
        /\ snd[b].targets = ConnIds
        /\ \A c \in ConnIds : snd[b].att[c].push # "delivered"
        /\ \E c, d \in ConnIds :
              snd[b].att[c].push = "gone" /\ snd[b].att[d].push = "timeout"

\* C8 as stated: a broadcast whose registry scan failed is seen by its
\* caller as failed.
C8_ScanFailurePropagates ==
    \A b \in Senders :
        (snd[b].pc = "done" /\ snd[b].scan = "failed") =>
            snd[b].outcome = "rejected"

\* ---------------------------------------------------------- topic router
\* C10: resolve(topics) returns exactly the items of the registry that are
\* connected and whose subscriptions share a topic with topics; none for
\* the empty set of topics.
C10_ResolveExact ==
    (qry.pc = "done" /\ qry.op = "getSubscriberConnections"
        /\ qry.outcome = "fulfilled") =>
        /\ qry.result =
              {registry[c] : c \in {d \in ConnIds :
                  /\ registry[d] # NoRow
                  /\ registry[d].status = "connected"
                  /\ "subscriptions" \in DOMAIN registry[d]
                  /\ registry[d].subscriptions \cap qry.topics # {}}}
        /\ qry.topics = {} => qry.result = {}

\* A resolve of one topic returned one connection and left out a connected
\* item that shares no topic with it (no subscriptions, or other topics) and
\* a closing item subscribed to the topic.
C10_Witness ==
    /\ qry.pc = "done"
    /\ qry.outcome = "fulfilled"
    /\ Cardinality(qry.topics) = 1
    /\ Cardinality(qry.result) = 1
    /\ \E c \in ConnIds :
          /\ registry[c] # NoRow
          /\ registry[c].status = "connected"
          /\ \/ "subscriptions" \notin DOMAIN registry[c]
             \/ /\ registry[c].subscriptions # {}
                /\ registry[c].subscriptions \cap qry.topics = {}
    /\ \E c \in ConnIds :
          /\ registry[c] # NoRow
          /\ registry[c].status = "closing"
          /\ registry[c].subscriptions \cap qry.topics # {}

\* ------------------------------------------------------ location broadcast
\* The topics the claim names for the two cities and the category food.
C11_Topics(city) ==
    IF city = "Paris"
    THEN {"partners", "partners_paris", "partners_food", "partners_paris_food"}
    ELSE {"partners", "partners_lyon", "partners_food", "partners_lyon_food"}

\* C11: when the scan of a partner change broadcast by location resolves,
\* a push is started for exactly the live connections subscribed to at least
\* one of "partners", "partners_<city>", "partners_<category>" and
\* "partners_<city>_<category>", the city lower-cased; and no connection
\* outside these targets is ever pushed to.
C11_LocationTargets ==
    /\ [](\A b \in Senders : \A c \in ConnIds :
            snd[b].att[c].push # "none" => c \in snd[b].targets)
    /\ [][\A b \in Senders :
            (snd[b].pc = "scan" /\ snd'[b].scan = "ok") =>
                LET wanted == C11_Topics(snd[b].city)
                    subscribers ==
                        {c \in ConnIds :
                            /\ registry[c] # NoRow
                            /\ registry[c].status = "connected"
                            /\ OrEmpty(registry[c]) \cap wanted # {}}
                IN /\ snd'[b].targets = subscribers
                   /\ \A c \in ConnIds :
                         snd'[b].att[c].push = "pending" <=> c \in subscribers]_vars

\* A change filed under Paris and food is being pushed to a subscriber of
\* partners_paris while a subscriber of partners_lyon and one of the
\* capitalised partners_Paris get no push.
C11_Witness ==
    \E b \in Senders :
        /\ snd[b].pc = "send"
        /\ snd[b].city = "Paris"
        /\ snd[b].category = "food"
        /\ \E c, d, e \in ConnIds :
              /\ registry[c] # NoRow /\ OrEmpty(registry[c]) = {"partners_paris"}
              /\ snd[b].att[c].push # "none"
              /\ registry[d] # NoRow /\ OrEmpty(registry[d]) = {"partners_lyon"}
              /\ snd[b].att[d].push = "none"
              /\ registry[e] # NoRow /\ OrEmpty(registry[e]) = {"partners_Paris"}
              /\ snd[b].att[e].push = "none"

\* ------------------------------------------------------------------ stats
\* The count a statistics object gives for a key: absent keys count zero.
CountOf(counts, key) == IF key \in DOMAIN counts THEN counts[key] ELSE 0

RECURSIVE SumOf(_, _)
SumOf(counts, keys) ==
    IF keys = {} THEN 0
    ELSE LET k == CHOOSE j \in keys : TRUE
         IN counts[k] + SumOf(counts, keys \ {k})

\* C12: the statistics returned when the scan resolves agree with the table
\* at that moment: total is the number of connected items, byUser gives for
\* every user the number of connected items it owns (its counts sum to
\* total), byTopic gives for every topic the number of connected items whose
\* subscriptions contain it, and no key has a zero count.
C12_StatsConsistent ==
    [][(qry.pc = "scan" /\ qry.op = "getConnectionStats"
            /\ qry'.pc = "done" /\ qry'.stats # Null) =>
        LET live == {c \in ConnIds : registry[c] # NoRow
                                        /\ registry[c].status = "connected"}
            stats == qry'.stats
        IN /\ stats.total = Cardinality(live)
           /\ DOMAIN stats.byUser \subseteq Users
           /\ \A u \in Users : CountOf(stats.byUser, u) =
                  Cardinality({c \in live : registry[c].userId = u})
           /\ SumOf(stats.byUser, DOMAIN stats.byUser) = stats.total
           /\ \A t \in DOMAIN stats.byTopic \cup Topics :
                  CountOf(stats.byTopic, t) =
                  Cardinality({c \in live : t \in OrEmpty(registry[c])})
           /\ \A u \in DOMAIN stats.byUser : stats.byUser[u] > 0
           /\ \A t \in DOMAIN stats.byTopic : stats.byTopic[t] > 0]_vars

\* The example of the claim: the first user owns two connections, subscribed
\* to {partners} and to both topics, the second user one, subscribed to the
\* second topic; the statistics are total 3, 2 and 1 by user, 2 and 2 by topic.
C12_Witness ==
    /\ MaxConn >= 3
    /\ qry.pc = "done"
    /\ qry.op = "getConnectionStats"
    /\ registry[1] # NoRow /\ registry[1].userId = 1
    /\ registry[1].status = "connected"
    /\ OrEmpty(registry[1]) = {TopicNames[1]}
    /\ registry[3] # NoRow /\ registry[3].userId = 1
    /\ registry[3].status = "connected"
    /\ OrEmpty(registry[3]) = {TopicNames[1], TopicNames[2]}
    /\ registry[2] # NoRow /\ registry[2].userId = 2
    /\ registry[2].status = "connected"
    /\ OrEmpty(registry[2]) = {TopicNames[2]}
    /\ \A c \in ConnIds \ {1, 2, 3} : registry[c] = NoRow
    /\ qry.stats # Null
    /\ qry.stats.total = 3
    /\ qry.stats.byUser = (1 :> 2) @@ (2 :> 1)
    /\ qry.stats.byTopic = (TopicNames[1] :> 2) @@ (TopicNames[2] :> 2)

\* ------------------------------------------------------------------- reap
\* C13: a reap whose delete resolves while the table holds no item under the
\* connection id is not refused for that and changes nothing; a reap whose
\* delete succeeds leaves the item absent and every other item as it was, so
\* that reaping twice leaves the table as reaping once.
C13_ReapIdempotent ==
    [][\A b \in Senders : \A c \in ConnIds :
        (snd[b].att[c].del = "pending" /\ snd'[b].att[c].del # "pending") =>
            /\ snd'[b].att[c].del \in {"ok", "failed"}
            /\ snd'[b].att[c].task = "fulfilled"
            /\ registry[c] = NoRow => registry' = registry
            /\ snd'[b].att[c].del = "ok" =>
                  /\ registry' = cleanupConnection(registry, c)
                  /\ cleanupConnection(registry', c) = registry'
                  /\ registry'[c] = NoRow
                  /\ \A d \in ConnIds \ {c} : registry'[d] = registry[d]]_vars

\* Two broadcasts each reaped the same connection and both deletes succeeded.
C13_Witness ==
    \E c \in ConnIds :
        /\ snd[1].att[c].del = "ok"
        /\ snd[2].att[c].del = "ok"
        /\ registry[c] = NoRow

\* ------------------------------------------------------- duplicate admission
\* C14: every item of the table lies under its own connection id, so that a
\* connection id names at most one item; and a put that succeeds for a
\* connection id, whether or not the table already holds an item under it,
\* leaves under it the item of this latest write alone (owner the id of this
\* request's token, status connected, no subscription, expiry from this
\* request's clock), every other item as it was, and the number of items
\* grown by one only if the id was free.
C14_LastWriteWins ==
    /\ [](\A c \in ConnIds : registry[c] # NoRow => registry[c].connectionId = c)
    /\ [][\A h \in Handlers :
            (adm[h].pc = "put" /\ adm'[h].put = "ok") =>
                LET c == adm[h].connectionId
                    row == registry'[c]
                IN /\ row # NoRow
                   /\ row.userId = adm[h].token.id
                   /\ row.status = "connected"
                   /\ "subscriptions" \notin DOMAIN row
                   /\ row.ttl = (adm[h].now \div 1000) + TtlSeconds
                   /\ \A d \in ConnIds \ {c} : registry'[d] = registry[d]
                   /\ Cardinality(Items(registry')) =
                        Cardinality(Items(registry))
                        + (IF registry[c] = NoRow THEN 1 ELSE 0)]_vars

\* Two requests for the same connection id, from two users at two readings
\* of the clock, were both written; the table holds the one item of the
\* second request.
C14_Witness ==
    /\ adm[1].put = "ok"
    /\ adm[2].put = "ok"
    /\ adm[1].connectionId = adm[2].connectionId
    /\ adm[1].userId # adm[2].userId
    /\ adm[1].now # adm[2].now
    /\ registry[adm[2].connectionId].userId = adm[2].userId
    /\ registry[adm[2].connectionId].ttl = (adm[2].now \div 1000) + TtlSeconds
    /\ Cardinality(Items(registry)) = 1

\* ------------------------------------------------------- racing broadcasts
\* Both broadcasts are over and both had the connection among their targets
\* and were answered gone by it.
BothGone(c) ==
    \A b \in {1, 2} :
        /\ snd[b].pc = "done"
        /\ c \in snd[b].targets
        /\ snd[b].att[c].push = "gone"

C16_ReadOnly ==
    /\ [](\A b \in Senders : \A c \in ConnIds : snd[b].att[c].push = "none")
    /\ [](\A h \in Handlers : adm[h].welcome = "none")
    /\ [][qry' # qry =>
            /\ registry' = registry
            /\ snd' = snd
            /\ adm' = adm]_vars

\* A query has resolved its scan over a table holding a connected item and an
\* item left closing.
C16_Witness ==
    /\ qry.pc = "done"
    /\ qry.outcome = "fulfilled"
    /\ qry.op \in {"getSubscriberConnections", "getConnectionStats"}
    /\ \E c, d \in ConnIds :
          /\ registry[c] # NoRow /\ registry[c].status = "connected"
          /\ registry[d] # NoRow /\ registry[d].status = "closing"

\* ------------------------------------------------------ directed broadcasts
\* C17: when the scan of a notification to a user resolves, a push is started
\* for exactly the connected items the user owns, and for none when it owns
\* none (sendToConnections is then not called); when the scan of a broadcast
\* to all resolves, a push is started for every connected item, subscribed or
\* not; and no connection outside these targets is ever pushed to.
C17_DirectedTargets ==
    /\ [](\A b \in Senders : \A c \in ConnIds :
            (snd[b].op \in {"notifyUser", "broadcastToAll"}
                /\ snd[b].att[c].push # "none") => c \in snd[b].targets)
    /\ [][\A b \in Senders :
            (snd[b].pc = "scan" /\ snd'[b].scan = "ok"
                /\ snd[b].op \in {"notifyUser", "broadcastToAll"}) =>
                LET live == {c \in ConnIds : registry[c] # NoRow
                                                /\ registry[c].status = "connected"}
                    wanted == IF snd[b].op = "notifyUser"
                              THEN {c \in live : registry[c].userId = snd[b].userId}
                              ELSE live
                IN /\ snd'[b].targets = wanted
                   /\ \A c \in ConnIds :
                         snd'[b].att[c].push = "pending" <=> c \in wanted
                   /\ (wanted = {} /\ snd[b].op = "notifyUser") =>
                         /\ snd'[b].pc = "done"
                         /\ snd'[b].send = "none"]_vars

\* A notification to the first user is being pushed to its two connected
\* items and not to the connected item of the second user.
C17_Witness ==
    \E b \in Senders :
        /\ snd[b].op = "notifyUser"
        /\ snd[b].userId = 1
        /\ snd[b].pc = "send"
        /\ \E c, d, x \in ConnIds :
              /\ c # d
              /\ registry[c] # NoRow /\ registry[c].userId = 1
              /\ registry[d] # NoRow /\ registry[d].userId = 1
              /\ snd[b].att[c].push # "none"
              /\ snd[b].att[d].push # "none"
              /\ registry[x] # NoRow /\ registry[x].userId = 2
              /\ registry[x].status = "connected"
              /\ snd[b].att[x].push = "none"

\* -------------------------------------------------------------- lifecycle
\* C18: an item enters the table only by the successful put of an admission
\* for its connection id and leaves it only by the successful delete of a
\* reap, which removes it whole; and a broadcast starts a push only for a
\* connection whose item is in the table when its scan resolves, so that a
\* broadcast started after a reap pushes nothing to the reaped connection
\* unless it was admitted again.
C18_PresentWhileAdmitted ==
    [][\A c \in ConnIds :
        /\ (registry[c] = NoRow /\ registry'[c] # NoRow) =>
              \E h \in Handlers : /\ adm[h].pc = "put"
                                   /\ adm[h].connectionId = c
                                   /\ adm'[h].put = "ok"
        /\ (registry[c] # NoRow /\ registry'[c] # registry[c]) =>
              \/ \E h \in Handlers : /\ adm[h].pc = "put"
                                      /\ adm[h].connectionId = c
                                      /\ adm'[h].put = "ok"
              \/ /\ registry'[c] = NoRow
                 /\ \E b \in Senders : /\ snd[b].att[c].del = "pending"
                                       /\ snd'[b].att[c].del = "ok"
        /\ \A b \in Senders :
              (snd[b].att[c].push = "none" /\ snd'[b].att[c].push # "none") =>
                  /\ snd[b].pc = "scan"
                  /\ registry[c] # NoRow
                  /\ registry[c].status = "connected"]_vars

\* The connection admitted last was reaped by an earlier broadcast; the
\* broadcast to all now running pushes to another connection and not to it.
C18_Witness ==
    /\ adm[1].pc = "done"
    /\ adm[1].put = "ok"
    /\ registry[adm[1].connectionId] = NoRow
    /\ snd[1].op = "broadcastToAll"
    /\ snd[1].pc = "send"
    /\ snd[1].att[adm[1].connectionId].push = "none"
    /\ \E d \in ConnIds : /\ registry[d] # NoRow
                           /\ snd[1].att[d].push = "delivered"

\* ------------------------------------------------------------ one attempt
\* C19: in one send every target has exactly one push: it is issued when the
\* send starts, to the targets and to no other connection; once it has
\* settled, delivered or failed, its outcome stands until the broadcast
\* returns and no second push is issued; and a send over no target issues no
\* push and no delete and leaves the table as it was.
C19_OnePushEach ==
    /\ [](\A b \in Senders :
            snd[b].pc \in {"send", "done"} =>
                /\ \A c \in ConnIds :
                      snd[b].att[c].push # "none" <=> c \in snd[b].targets
                /\ snd[b].targets = {} =>
                      \A c \in ConnIds : snd[b].att[c] = NoAttempt)
    /\ [][\A b \in Senders : \A c \in ConnIds :
            /\ snd[b].att[c].push \in PushResults =>
                  \/ snd'[b].att[c].push = snd[b].att[c].push
                  \/ snd'[b].pc = "idle"
            /\ (snd'[b].att[c].push = "pending" /\ snd[b].att[c].push # "pending")
                  => (snd[b].pc = "scan" /\ snd[b].att[c].push = "none")
            /\ (snd[b].pc = "scan" /\ snd'[b].pc = "done")
                  => registry' = registry]_vars

\* A send to two targets or more is over: one push was delivered, one timed
\* out and stands as it failed, with no delete issued and its item in place.
C19_Witness ==
    \E b \in Senders :
        /\ snd[b].pc = "done"
        /\ snd[b].send = "fulfilled"
        /\ \E c, d \in snd[b].targets :
              /\ snd[b].att[c].push = "delivered"
              /\ snd[b].att[d] = [push |-> "timeout", del |-> "none",
                                  task |-> "fulfilled"]
              /\ registry[d] # NoRow

\* ------------------------------------------------------- failed admission
\* C20 as stated: when the put of an admission failed, the handler returns
\* 500, no welcome push is attempted and the table holds no item under the
\* connection id.
C20_FailedPutNoRow ==
    \A h \in Handlers :
        adm[h].put = "failed" =>
            /\ adm[h].statusCode = StatusInternal
            /\ adm[h].welcome = "none"
            /\ registry[adm[h].connectionId] = NoRow

\* C20, amended: the welcome push is attempted only once the put has
\* succeeded; when the put failed the handler is over with 500 and no welcome
\* push, and the step that fails the put leaves the table as it was, so that
\* this request wrote no item (an item an earlier admission left under the
\* same connection id stays).
C20_WelcomeAfterPut ==
    /\ [](\A h \in Handlers :
            /\ adm[h].welcome # "none" => adm[h].put = "ok"
            /\ adm[h].put = "failed" =>
                  /\ adm[h].pc = "done"
                  /\ adm[h].statusCode = StatusInternal
                  /\ adm[h].welcome = "none")
    /\ [][\A h \in Handlers :
            (adm[h].pc = "put" /\ adm'[h].put = "failed") =>
                registry' = registry]_vars

\* The put of a request with a valid token failed: 500 was returned, no
\* welcome push was attempted and the table holds nothing under the
\* connection id.
C20_Witness ==
    \E h \in Handlers :
        /\ adm[h].pc = "done"
        /\ ValidToken(adm[h].token)
        /\ adm[h].put = "failed"
        /\ adm[h].statusCode = StatusInternal
        /\ adm[h].welcome = "none"
        /\ registry[adm[h].connectionId] = NoRow

\* ------------------------------------------------------------ termination
\* C21: when every push and every delete it issues resolves in the end, a
\* send that has started completes in the end: its join settles and the
\* broadcast is over.
C21_SendCompletes ==
    \A b \in {1} :
        (snd[b].pc = "send") ~> (snd[b].pc = "done" /\ snd[b].send = "fulfilled")

\* A send to two targets or more is over: one was answered gone and its
\* delete succeeded, another was answered with a server error.
C21_Witness ==
    \E b \in Senders :
        /\ snd[b].pc = "done"
        /\ snd[b].send = "fulfilled"
        /\ \E c, d \in snd[b].targets :
              /\ snd[b].att[c].push = "gone"
              /\ snd[b].att[c].del = "ok"
              /\ registry[c] = NoRow
              /\ snd[b].att[d].push = "serverError"
              /\ snd[b].att[d].task = "fulfilled"

\* ------------------------------------------------------------ single scan
\* C22: a broadcast takes one scan: its pushes are all issued at the step
\* that resolves it, to connected items the table holds at that step, and
\* from then on its targets stay what they are and no other connection gets
\* a push from it, whatever is admitted meanwhile; and when the delete that
\* follows a gone answer resolves on an item already removed, the table stays
\* as it was.
C22_SingleScan ==
    /\ [](\A b \in Senders : \A c \in ConnIds :
            (snd[b].pc \in {"send", "done"} /\ c \notin snd[b].targets)
                => snd[b].att[c] = NoAttempt)
    /\ [][\A b \in Senders :
            /\ snd[b].pc \in {"send", "done"} =>
                  (snd'[b].targets = snd[b].targets \/ snd'[b].pc = "idle")
            /\ \A c \in ConnIds :
                  /\ (snd[b].att[c].push = "none" /\ snd'[b].att[c].push # "none") =>
                        /\ snd[b].pc = "scan"
                        /\ c \in snd'[b].targets
                        /\ registry[c] # NoRow
                  /\ (snd[b].att[c].del = "pending" /\ snd'[b].att[c].del # "pending"
                        /\ registry[c] = NoRow) => registry' = registry]_vars

\* A broadcast to all scanned the first connection alone and is over.  The
\* second connection, admitted since, is in the table and got no push from
\* it; the first, reaped meanwhile by a notification to its user, was still
\* pushed to, answered gone, and the delete that followed found it removed.
C22_Witness ==
    /\ snd[1].op = "broadcastToAll"
    /\ snd[1].pc = "done"
    /\ snd[1].targets = {1}
    /\ snd[1].att[1].push = "gone"
    /\ snd[1].att[1].del = "ok"
    /\ snd[2].op = "notifyUser"
    /\ snd[2].att[1].del = "ok"
    /\ registry[1] = NoRow
    /\ adm[1].connectionId = 2
    /\ adm[1].put = "ok"
    /\ registry[2] # NoRow
    /\ snd[1].att[2].push = "none"

\* ---------------------------------------------------------- failed delete
\* C23: the step at which the delete of a reap fails leaves the table and
\* every other task of the send as they were and ends its own task
\* fulfilled; and when a send in which such a delete failed is over, it has
\* completed fulfilled, every other target has the outcome of its own push,
\* and the gone connection is still in the table.
C23_DeleteFailureAbsorbed ==
    /\ [](\A b \in Senders : \A c \in ConnIds :
            (snd[b].pc = "done" /\ snd[b].att[c].del = "failed") =>
                /\ snd[b].send = "fulfilled"
                /\ snd[b].outcome = "fulfilled"
                /\ snd[b].att[c].task = "fulfilled"
                /\ registry[c] # NoRow
                /\ \A d \in snd[b].targets :
                      /\ snd[b].att[d].push \in PushResults
                      /\ snd[b].att[d].task = "fulfilled")
    /\ [][\A b \in Senders : \A c \in ConnIds :
            (snd[b].att[c].del = "pending" /\ snd'[b].att[c].del = "failed") =>
                /\ registry' = registry
                /\ snd'[b].att[c].task = "fulfilled"
                /\ snd'[b].pc = snd[b].pc
                /\ \A d \in ConnIds \ {c} : snd'[b].att[d] = snd[b].att[d]]_vars

\* A send to three targets is over: the first answered gone and its delete
\* failed, so its item is still there; the second was delivered; the third
\* answered gone and was removed.
C23_Witness ==
    \E b \in Senders :
        /\ snd[b].pc = "done"
        /\ snd[b].send = "fulfilled"
        /\ \E c, d, x \in snd[b].targets :
              /\ snd[b].att[c].push = "gone"
              /\ snd[b].att[c].del = "failed"
              /\ registry[c] # NoRow
              /\ snd[b].att[d].push = "delivered"
              /\ registry[d] # NoRow
              /\ snd[b].att[x].push = "gone"
              /\ snd[b].att[x].del = "ok"
              /\ registry[x] = NoRow

====
